---------------------------- MODULE Spec2Model ----------------------------
(***************************************************************************)
(* Dienstplan Flohkiste: the time-accounting engine of                     *)
(* flohkiste_dienstplan.py and the handlers that drive it.                 *)
(*                                                                         *)
(* Text is a sequence of one-character strings, so that parsing and        *)
(* formatting are computed character by character as the code does.        *)
(* A call that can raise ValueError returns a result record:               *)
(*   [ok |-> TRUE, val |-> n]   the call returned n                        *)
(*   [ok |-> FALSE, err |-> m]  the call raised ValueError(m)              *)
(***************************************************************************)
EXTENDS Integers, Sequences, FiniteSets, TLC

(***************************************************************************)
(* Bounds of the model.                                                    *)
(***************************************************************************)
MaxTextLen == 5      \* longest text typed into the parser
MinRange == 1810     \* minute counts handed to the formatter: -MinRange..MinRange
MaxClock == 1100     \* latest end of a span, in minutes after 00:00
MaxSteps == 4        \* handlers run in one session of the application

(***************************************************************************)
(* Characters and text.                                                    *)
(***************************************************************************)
Digits == <<"0", "1", "2", "3", "4", "5", "6", "7", "8", "9">>

DigitSet == {"0", "1", "2", "3", "4", "5", "6", "7", "8", "9"}

IsDigit(c) == c \in DigitSet

DigitVal(c) ==
    CASE c = "0" -> 0 [] c = "1" -> 1 [] c = "2" -> 2 [] c = "3" -> 3 [] c = "4" -> 4
      [] c = "5" -> 5 [] c = "6" -> 6 [] c = "7" -> 7 [] c = "8" -> 8 [] c = "9" -> 9

IsSpace(c) == c = " "

Ok(v) == [ok |-> TRUE, val |-> v]

Raise(msg) == [ok |-> FALSE, err |-> msg]

Max(a, b) == IF a >= b THEN a ELSE b

\* str.strip(): drop leading and trailing whitespace.
RECURSIVE lstrip(_)
lstrip(s) == IF s # <<>> /\ IsSpace(Head(s)) THEN lstrip(Tail(s)) ELSE s

RECURSIVE rstrip(_)
rstrip(s) ==
    IF s # <<>> /\ IsSpace(s[Len(s)]) THEN rstrip(SubSeq(s, 1, Len(s) - 1)) ELSE s

strip(s) == rstrip(lstrip(s))

\* int(text) of a non-empty run of digits.
RECURSIVE int(_)
int(s) ==
    IF s = <<>> THEN 0
    ELSE 10 * int(SubSeq(s, 1, Len(s) - 1)) + DigitVal(s[Len(s)])

\* str(n) for n >= 0.
RECURSIVE str(_)
str(n) == IF n < 10 THEN <<Digits[n + 1]>> ELSE str(n \div 10) \o <<Digits[(n % 10) + 1]>>

\* TIME_RE = ^([0-2]?\d):([0-5]\d)$ : the two groups of a match, or <<>>.
\* (TIME_RE_hour3: the variant whose hour class is [0-3]?\d.)
TIME_RE_hour3(s) ==
    LET hlen == IF Len(s) >= 2 /\ s[1] \in {"0", "1", "2", "3"} /\ IsDigit(s[2])
                THEN 2 ELSE 1
    IN  IF /\ Len(s) = hlen + 3
           /\ IsDigit(s[hlen])
           /\ s[hlen + 1] = ":"
           /\ s[hlen + 2] \in {"0", "1", "2", "3", "4", "5"}
           /\ IsDigit(s[hlen + 3])
        THEN <<SubSeq(s, 1, hlen), SubSeq(s, hlen + 2, hlen + 3)>>
        ELSE <<>>

TIME_RE(s) ==
    LET hlen == IF Len(s) >= 2 /\ s[1] \in {"0", "1", "2"} /\ IsDigit(s[2])
                THEN 2 ELSE 1
    IN  IF /\ Len(s) = hlen + 3
           /\ IsDigit(s[hlen])
           /\ s[hlen + 1] = ":"
           /\ s[hlen + 2] \in {"0", "1", "2", "3", "4", "5"}
           /\ IsDigit(s[hlen + 3])
        THEN <<SubSeq(s, 1, hlen), SubSeq(s, hlen + 2, hlen + 3)>>
        ELSE <<>>

ErrHead == "Ungueltiges Zeitformat: "
ErrTail == ". Bitte HH:MM eingeben (z. B. 08:30)."

\* the ValueError raised for the stripped text s
FormatError(s) == Raise(<<ErrHead>> \o s \o <<ErrTail>>)

\* hhmm_to_minutes after s = (s or "").strip(); m is TIME_RE.match(s)
MinutesOfMatch(s, m) ==
    IF m = <<>> THEN FormatError(s) ELSE Ok(int(m[1]) * 60 + int(m[2]))

MinutesOfStripped(s) == IF s = <<>> THEN Ok(0) ELSE MinutesOfMatch(s, TIME_RE(s))

hhmm_to_minutes(t) == MinutesOfStripped(strip(t))

\* f"{n:02d}"  (fmt02d_nopad: the variant f"{n:d}")
fmt02d_nopad(n) == IF n < 0 THEN <<"-">> \o str(-n) ELSE str(n)

fmt02d(n) ==
    IF n < 0 THEN <<"-">> \o str(-n)
    ELSE IF n < 10 THEN <<"0">> \o str(n)
    ELSE str(n)

hhmm(m) == fmt02d(m \div 60) \o <<":">> \o fmt02d(m % 60)

minutes_to_hhmm(m, allow_negative) ==
    IF allow_negative /\ m < 0 THEN <<"-">> \o hhmm(-m) ELSE hhmm(m)


(***************************************************************************)
(* Data classes.                                                           *)
(***************************************************************************)
DAYS == <<"Montag", "Dienstag", "Mittwoch", "Donnerstag", "Freitag">>

DayNames == {DAYS[i] : i \in 1..Len(DAYS)}

STATUSES == {"Arbeitstag", "Urlaub", "Krank", "Feiertag"}

DayEntry(status, start1, end1, start2, end2) ==
    [status |-> status, start1 |-> start1, end1 |-> end1,
     start2 |-> start2, end2 |-> end2]

DefaultDayEntry == DayEntry("Arbeitstag", <<>>, <<>>, <<>>, <<>>)

\* the sum of two results; the first that raised propagates
Plus(r1, r2) ==
    IF ~r1.ok THEN r1 ELSE IF ~r2.ok THEN r2 ELSE Ok(r1.val + r2.val)

\* span(a, b) inside total_minutes_raw, given the two parse results:
\* a ValueError of either parse is caught and the span is 0.
\* (SpanOf_nocatch: the variant without the except clause.)
SpanOf_nocatch(am, bm) ==
    IF ~am.ok THEN am
    ELSE IF ~bm.ok THEN bm
    ELSE Ok(Max(bm.val - am.val, 0))

\* (SpanOf_noclamp: the variant returning bm - am unclamped.)
SpanOf_noclamp(am, bm) ==
    IF ~am.ok THEN Ok(0)
    ELSE IF ~bm.ok THEN Ok(0)
    ELSE Ok(bm.val - am.val)

SpanOf(am, bm) ==
    IF ~am.ok THEN Ok(0)
    ELSE IF ~bm.ok THEN Ok(0)
    ELSE Ok(Max(bm.val - am.val, 0))

span(a, b) == SpanOf(hhmm_to_minutes(a), hhmm_to_minutes(b))

total_minutes_raw(d) == Plus(span(d.start1, d.end1), span(d.start2, d.end2))

\* net_minutes_with_pause on a working day, given total = total_minutes_raw()
\* (NetOf_exclusive: the variant comparing total < threshold_min.)
NetOf_exclusive(total, pause_short, pause_long, threshold_min) ==
    IF ~total.ok THEN total
    ELSE IF total.val <= 0 THEN Ok(0)
    ELSE Ok(Max(total.val - (IF total.val < threshold_min
                             THEN pause_short ELSE pause_long), 0))

NetOf(total, pause_short, pause_long, threshold_min) ==
    IF ~total.ok THEN total
    ELSE IF total.val <= 0 THEN Ok(0)
    ELSE Ok(Max(total.val - (IF total.val <= threshold_min
                             THEN pause_short ELSE pause_long), 0))

\* (net_minutes_anystatus: the variant without the status test.)
net_minutes_anystatus(d, pause_short, pause_long, threshold_min) ==
    NetOf(total_minutes_raw(d), pause_short, pause_long, threshold_min)

net_minutes_with_pause(d, pause_short, pause_long, threshold_min) ==
    IF d.status # "Arbeitstag" THEN Ok(0)
    ELSE NetOf(total_minutes_raw(d), pause_short, pause_long, threshold_min)

\* sum(... for d in self.days.values()): the first day that raises ends the sum.
RECURSIVE SumNet(_, _, _, _, _)
SumNet(days, names, pause_short, pause_long, threshold_min) ==
    IF names = {} THEN Ok(0)
    ELSE LET n == CHOOSE x \in names : TRUE
         IN  Plus(net_minutes_with_pause(days[n], pause_short, pause_long,
                                         threshold_min),
                  SumNet(days, names \ {n}, pause_short, pause_long,
                         threshold_min))

weekly_ist(wed, pause_short, pause_long, threshold_min) ==
    SumNet(wed.days, DOMAIN wed.days, pause_short, pause_long, threshold_min)

WeekEmployeeData(carry, days) == [carry_prev_min |-> carry, days |-> days]

DefaultDays == [d \in DayNames |-> DefaultDayEntry]

(***************************************************************************)
(* The application data (self.data) and its accessors.                     *)
(***************************************************************************)
Employee(id, name, target, active, balance) ==
    [id |-> id, name |-> name, weekly_target_min |-> target,
     active |-> active, balance_min |-> balance]

EmptyMap == [x \in {} |-> 0]

\* dict.get(key, default)
Get(dict, key, default) == IF key \in DOMAIN dict THEN dict[key] ELSE default

\* dict.setdefault(key, default): the dict afterwards
SetDefault(dict, key, default) ==
    IF key \in DOMAIN dict THEN dict ELSE dict @@ (key :> default)

\* dict[key] = value: the dict afterwards
Put(dict, key, value) ==
    [k \in DOMAIN dict \cup {key} |-> IF k = key THEN value ELSE dict[k]]

\* data["weeks"] after the two setdefault calls of get_week_data / set_week_data
TouchWeek(weeks, emp_id, kw) ==
    LET w1 == SetDefault(weeks, kw, EmptyMap)
    IN  Put(w1, kw, SetDefault(w1[kw], emp_id, EmptyMap))

\* the DayEntry get_week_data builds from the stored dict di of a day
DayOf(di) ==
    DayEntry(Get(di, "status", "Arbeitstag"), Get(di, "start1", <<>>),
             Get(di, "end1", <<>>), Get(di, "start2", <<>>), Get(di, "end2", <<>>))

\* FlohkisteApp.get_week_data: the WeekEmployeeData built from the store
\* (get_week_data_stored: the variant that takes every stored day name.)
get_week_data_stored(weeks, emp_id, kw) ==
    LET empstore == TouchWeek(weeks, emp_id, kw)[kw][emp_id]
        stored == Get(empstore, "days", EmptyMap)
    IN  WeekEmployeeData(
            Get(empstore, "carry_prev_min", 0),
            [day \in DayNames \cup DOMAIN stored |->
                DayOf(Get(stored, day, EmptyMap))])

get_week_data(weeks, emp_id, kw) ==
    LET empstore == TouchWeek(weeks, emp_id, kw)[kw][emp_id]
        stored == Get(empstore, "days", EmptyMap)
    IN  WeekEmployeeData(
            Get(empstore, "carry_prev_min", 0),
            [day \in DayNames |-> DayOf(Get(stored, day, EmptyMap))])

\* FlohkisteApp.set_week_data: data["weeks"] afterwards
set_week_data(weeks, emp_id, kw, wed) ==
    LET w1 == TouchWeek(weeks, emp_id, kw)
    IN  Put(w1, kw, Put(w1[kw], emp_id,
            [carry_prev_min |-> wed.carry_prev_min, days |-> wed.days]))

(***************************************************************************)
(* EmployeeWeekRow.                                                        *)
(***************************************************************************)
\* EmployeeWeekRow.collect_week_data
CarryOf(c) == IF c.ok THEN c.val ELSE 0

collect_week_data(row) ==
    WeekEmployeeData(CarryOf(hhmm_to_minutes(row.carry)), row.day_vars)

\* The values of a Weekly Result that recalculate_labels, save_all and
\* export_pdf compute from the weekly total ist, the carry and the target.
\* (ResultOf_swapped: the variant with diff = soll - ist.)
ResultOf_swapped(ist, carry, soll) ==
    IF ~ist.ok THEN ist
    ELSE Ok([ist |-> ist.val, soll |-> soll, diff |-> soll - ist.val,
             new_carry |-> carry + (soll - ist.val)])

ResultOf(ist, carry, soll) ==
    IF ~ist.ok THEN ist
    ELSE Ok([ist |-> ist.val, soll |-> soll, diff |-> ist.val - soll,
             new_carry |-> carry + (ist.val - soll)])

WeeklyResult(wed, soll, s) ==
    ResultOf(weekly_ist(wed, s.pause_short_min, s.pause_long_min,
                        s.pause_threshold_min),
             wed.carry_prev_min, soll)

\* EmployeeWeekRow.recalculate_labels: the row with its labels redrawn
Relabel(row, r) ==
    IF ~r.ok THEN row
    ELSE [row EXCEPT !.lbl_ist = minutes_to_hhmm(r.val.ist, FALSE),
                     !.lbl_diff = minutes_to_hhmm(r.val.diff, TRUE)]

recalculate_labels(row, s) ==
    Relabel(row, WeeklyResult(collect_week_data(row), row.emp.weekly_target_min, s))

\* EmployeeWeekRow.__init__ for employee emp, given the week data it loaded
NewRow(emp, wed, s) ==
    recalculate_labels(
        [emp |-> emp,
         carry |-> IF wed.carry_prev_min = 0 /\ emp.balance_min # 0
                   THEN minutes_to_hhmm(emp.balance_min, TRUE)
                   ELSE minutes_to_hhmm(wed.carry_prev_min, TRUE),
         day_vars |-> wed.days,
         lbl_ist |-> <<"0", "0", ":", "0", "0">>,
         lbl_soll |-> minutes_to_hhmm(emp.weekly_target_min, FALSE),
         lbl_diff |-> <<"0", "0", ":", "0", "0">>], s)

(***************************************************************************)
(* State.                                                                  *)
(*   pc, txt, mins, allow, res   the parser/formatter under test           *)
(*   wk, cfg, calc               the day calculator under test             *)
(*   employees, weeks, settings  self.data of FlohkisteApp                 *)
(*   selected_id                 EmployeesPage.selected_id (0 is None)     *)
(*   rows, var_kw                WeekPage.rows and WeekPage.var_kw         *)
(*   nextId                      the next id the clock yields (ids are     *)
(*                               made from the time, so they are fresh)    *)
(*   last                        what the last handler showed: its message *)
(*                               box and, for the export, the rows drawn   *)
(*   steps                       the number of handlers run so far         *)
(* EmployeesPage.__init__ (line 219) reads "self.app = app()"; the model   *)
(* takes the handlers as they run with self.app bound to the application.  *)
(***************************************************************************)
VARIABLES pc, txt, mins, allow, res, wk, cfg, calc,
          employees, weeks, settings, selected_id, rows, var_kw, nextId,
          last, steps

timeVars == <<txt, mins, allow, res>>
dayVars == <<wk, cfg, calc>>
appVars == <<employees, weeks, settings, selected_id, rows, var_kw, nextId,
             last, steps>>
vars == <<pc, txt, mins, allow, res, wk, cfg, calc,
          employees, weeks, settings, selected_id, rows, var_kw, nextId,
          last, steps>>

NoResult == [ok |-> FALSE, err |-> <<>>]

\* ensure_structure: the default settings
DefaultSettings ==
    [pause_threshold_min |-> 9 * 60 + 15, pause_short_min |-> 30,
     pause_long_min |-> 45, count_vacation_as_work |-> FALSE]

Done(msg) == [msg |-> msg, report |-> <<>>]

TimeIdle ==
    /\ txt = <<>> /\ mins = 0 /\ allow = FALSE /\ res = NoResult

DayIdle ==
    /\ wk = DefaultDays /\ cfg = DefaultSettings /\ calc = NoResult

AppIdle ==
    /\ employees = <<>> /\ weeks = EmptyMap /\ settings = DefaultSettings
    /\ selected_id = 0 /\ rows = <<>> /\ var_kw = 1 /\ nextId = 1
    /\ last = Done("") /\ steps = 0

(***************************************************************************)
(* The parser and the formatter applied to bounded inputs.                 *)
(***************************************************************************)
Alphabet == {"0", "2", "3", "5", "6", ":", "-", " "}

Texts == UNION {[1..n -> Alphabet] : n \in 0..MaxTextLen}

InitTime ==
    /\ \/ pc = "text" /\ txt \in Texts /\ mins = 0
       \/ pc = "minutes" /\ txt = <<>> /\ mins \in (-MinRange)..MinRange
    /\ allow = FALSE /\ res = NoResult
    /\ DayIdle /\ AppIdle

\* hhmm_to_minutes(txt)
Parse ==
    /\ pc \in {"text", "formatted"}
    /\ res' = hhmm_to_minutes(txt)
    /\ pc' = IF pc = "text" THEN "parsed" ELSE "roundtrip"
    /\ UNCHANGED <<txt, mins, allow, dayVars, appVars>>

\* txt = minutes_to_hhmm(mins, a)
Format(a) ==
    /\ pc = "minutes"
    /\ txt' = minutes_to_hhmm(mins, a)
    /\ allow' = a
    /\ pc' = "formatted"
    /\ UNCHANGED <<mins, res, dayVars, appVars>>

NextTime == Parse \/ \E a \in BOOLEAN : Format(a)

SpecTime == InitTime /\ [][NextTime]_vars

(***************************************************************************)
(* The day calculator and the week aggregator applied to bounded inputs.   *)
(***************************************************************************)
T0800 == <<"0", "8", ":", "0", "0">>
T1630 == <<"1", "6", ":", "3", "0">>
T1716 == <<"1", "7", ":", "1", "6">>
TBad == <<"7", ":", "6", "0">>
TBlank == <<" ">>

TimeTexts == {<<>>, TBlank, T0800, T1630, TBad}

StatusTexts == STATUSES \cup {"Frei"}

PauseRule(threshold, short, long) ==
    [pause_threshold_min |-> threshold, pause_short_min |-> short,
     pause_long_min |-> long, count_vacation_as_work |-> FALSE]

Cfgs ==
    {PauseRule(t, p[1], p[2]) :
        t \in {0, 555}, p \in {<<30, 45>>, <<0, 45>>, <<600, 700>>}}

FullDay == DayEntry("Arbeitstag", T0800, T1630, <<>>, <<>>)

WeekOf(monday, other) == [d \in DayNames |-> IF d = "Montag" THEN monday ELSE other]

\* What the week page and the export compute from a week: per day the raw and
\* the net minutes, and the weekly total.
Calc(w, c) ==
    [raw |-> [d \in DayNames |-> total_minutes_raw(w[d])],
     net |-> [d \in DayNames |->
                 net_minutes_with_pause(w[d], c.pause_short_min,
                                        c.pause_long_min, c.pause_threshold_min)],
     ist |-> weekly_ist(WeekEmployeeData(0, w), c.pause_short_min,
                        c.pause_long_min, c.pause_threshold_min)]

InitDay ==
    /\ pc = "day"
    /\ \/ \E e \in 0..MaxClock, second \in {<<>>, T1716} :
            /\ wk = WeekOf(DayEntry("Arbeitstag", T0800,
                                    minutes_to_hhmm(e, FALSE), T1630, second),
                           DefaultDayEntry)
            /\ cfg \in Cfgs
       \/ \E st \in StatusTexts, s1, e1, s2, e2 \in TimeTexts :
            /\ wk \in {WeekOf(DayEntry(st, s1, e1, s2, e2), o) :
                         o \in {DefaultDayEntry, FullDay}}
            /\ cfg \in {PauseRule(555, 30, 45), PauseRule(0, 600, 700)}
    /\ calc = NoResult
    /\ TimeIdle /\ AppIdle

\* the week is computed
Compute ==
    /\ pc = "day"
    /\ calc' = Calc(wk, cfg)
    /\ pc' = "computed"
    /\ UNCHANGED <<wk, cfg, timeVars, appVars>>

\* a stored time of one day is overwritten and the week is computed again
Recompute(day, key, t) ==
    /\ pc = "computed"
    /\ wk' = [wk EXCEPT ![day][key] = t]
    /\ calc' = Calc(wk', cfg)
    /\ pc' = "recomputed"
    /\ UNCHANGED <<cfg, timeVars, appVars>>

NextDay ==
    \/ Compute
    \/ Recompute("Montag", "start1", TBad)
    \/ Recompute("Dienstag", "end2", TBad)

SpecDay == InitDay /\ [][NextDay]_vars

(***************************************************************************)
(* The week store read through get_week_data, for bounded data files.      *)
(***************************************************************************)
\* stored days: a full working day, a vacation day with times entered, and a
\* day written without status and second span
KWs == {1, 2}

StoredEntries ==
    {FullDay, DayEntry("Urlaub", T0800, T1630, <<>>, <<>>),
     [start1 |-> T0800, end1 |-> T1630]}

StoredNames == {"Montag", "Freitag", "Samstag"}

StoredDays == UNION {[names -> StoredEntries] : names \in SUBSET StoredNames}

StoredCarries == {90, -60}

\* what data["weeks"][key]["employees"][emp_id] may hold
EmpStores ==
    {EmptyMap}
      \cup {[carry_prev_min |-> c] : c \in StoredCarries}
      \cup {[days |-> d] : d \in StoredDays}
      \cup {[carry_prev_min |-> c, days |-> d] : c \in StoredCarries, d \in StoredDays}

StoreFiles == {EmptyMap} \cup {1 :> (100 :> e) : e \in EmpStores}

InitStore ==
    /\ pc = "store"
    /\ weeks \in StoreFiles
    /\ employees = <<>> /\ settings = DefaultSettings
    /\ selected_id = 0 /\ rows = <<>> /\ var_kw = 1 /\ nextId = 1
    /\ last = Done("") /\ steps = 0
    /\ TimeIdle /\ DayIdle

\* get_week_data(emp_id, year, kw) and the weekly total of what it returns
Lookup(emp_id, kw) ==
    /\ pc = "store"
    /\ calc' = [emp_id |-> emp_id, kw |-> kw,
                wed |-> get_week_data(weeks, emp_id, kw),
                ist |-> weekly_ist(get_week_data(weeks, emp_id, kw),
                                   settings.pause_short_min,
                                   settings.pause_long_min,
                                   settings.pause_threshold_min)]
    /\ weeks' = TouchWeek(weeks, emp_id, kw)
    /\ pc' = "looked"
    /\ UNCHANGED <<wk, cfg, timeVars, employees, settings, selected_id, rows,
                   var_kw, nextId, last, steps>>

\* the running balances an employee may have when a row is built
StoredBalances == {-390, -1, 0, 90, 1800}

\* EmployeeWeekRow(...) is built for an employee of balance b, and the week
\* is collected from the row as built
BuildRow(emp_id, kw, b) ==
    /\ pc = "store"
    /\ calc' = [emp_id |-> emp_id, kw |-> kw, balance |-> b,
                wed |-> collect_week_data(
                           NewRow(Employee(emp_id, <<"A">>, 2310, TRUE, b),
                                  get_week_data(weeks, emp_id, kw), settings))]
    /\ weeks' = TouchWeek(weeks, emp_id, kw)
    /\ pc' = "rowbuilt"
    /\ UNCHANGED <<wk, cfg, timeVars, employees, settings, selected_id, rows,
                   var_kw, nextId, last, steps>>

NextStore ==
    \/ \E emp_id \in {100, 200}, kw \in KWs : Lookup(emp_id, kw)
    \/ \E emp_id \in {100, 200}, kw \in KWs, b \in StoredBalances :
          BuildRow(emp_id, kw, b)

SpecStore == InitStore /\ [][NextStore]_vars

(***************************************************************************)
(* The application: employees page, week page, settings page, export.      *)
(***************************************************************************)
T0000 == <<"0", "0", ":", "0", "0">>
T0130 == <<"0", "1", ":", "3", "0">>
T1600 == <<"1", "6", ":", "0", "0">>
T3830 == <<"3", "8", ":", "3", "0">>
TNeg0130 == <<"-", "0", "1", ":", "3", "0">>
TJunk == <<"8", "h">>
NameBen == <<"B", "e", "n">>
NameAnna == <<"A", "n", "n", "a">>

\* what the user types into the forms
\* (the form for a new employee: a name, a target, a balance)
NewForms ==
    {<<NameBen, T0800, T0000>>, <<TBlank, T0800, T0000>>,
     <<NameBen, T3830, T0000>>, <<NameBen, T0800, TNeg0130>>}
EditTargetTexts == {T1600}
FieldTexts == {T1630, TJunk}
CarryTexts == {T0130, TJunk}
EditDays == {"Montag"}
EditKeys == {"start1", "end1"}
\* (the export: a week, whether reportlab is installed, whether a file is chosen)
ExportInputs ==
    {<<1, TRUE, TRUE>>, <<2, TRUE, TRUE>>, <<1, FALSE, TRUE>>, <<1, TRUE, FALSE>>}
SettingsInputs == {<<555, 30, 45, FALSE>>, <<555, 30, 45, TRUE>>, <<-1, 30, 45, FALSE>>}

\* the data file found at start: none, or one written for an employee with a
\* weekly target of 38:30, a stored week 1 of five days 08:00-16:30 entered
\* with a carry of 0, and a stored week 2 entered with a carry of -01:00
DataFiles ==
    {[employees |-> <<>>, weeks |-> EmptyMap],
     [employees |-> <<Employee(100, NameAnna, 2310, TRUE, 0)>>,
      weeks |-> (1 :> (100 :> [carry_prev_min |-> 0,
                               days |-> [d \in DayNames |-> FullDay]]))
                @@ (2 :> (100 :> [carry_prev_min |-> -60,
                                  days |-> [d \in DayNames |-> FullDay]]))]}

\* WeekPage.build_rows: the rows and data["weeks"] afterwards
RECURSIVE BuildRows(_, _, _, _)
BuildRows(emps, wks, kw, s) ==
    IF emps = <<>> THEN [rows |-> <<>>, weeks |-> wks]
    ELSE LET emp == Head(emps)
         IN  IF ~emp.active THEN BuildRows(Tail(emps), wks, kw, s)
             ELSE LET w1 == TouchWeek(wks, emp.id, kw)
                      row == NewRow(emp, get_week_data(wks, emp.id, kw), s)
                      rest == BuildRows(Tail(emps), w1, kw, s)
                  IN  [rows |-> <<row>> \o rest.rows, weeks |-> rest.weeks]

\* the write-back loop of save_all: emps with the balance of emp_id replaced
WriteBalance(emps, emp_id, new_carry) ==
    [i \in DOMAIN emps |->
        IF emps[i].id = emp_id THEN [emps[i] EXCEPT !.balance_min = new_carry]
        ELSE emps[i]]

\* one pass of the loop of WeekPage.save_all, for one row: wed is the week
\* collected from the row, r the weekly result computed from it
SaveOf(row, emps, wks, kw, wed, r) ==
    [employees |-> IF r.ok THEN WriteBalance(emps, row.emp.id, r.val.new_carry)
                   ELSE emps,
     weeks |-> set_week_data(wks, row.emp.id, kw, wed),
     ok |-> r.ok]

SaveRow(row, emps, wks, kw, s) ==
    SaveOf(row, emps, wks, kw, collect_week_data(row),
           WeeklyResult(collect_week_data(row), row.emp.weekly_target_min, s))

\* WeekPage.save_all over the rows in order; an exception ends the loop
RECURSIVE SaveRows(_, _, _, _, _)
SaveRows(rs, emps, wks, kw, s) ==
    IF rs = <<>> THEN [employees |-> emps, weeks |-> wks, ok |-> TRUE]
    ELSE LET one == SaveRow(Head(rs), emps, wks, kw, s)
         IN  IF ~one.ok THEN one
             ELSE SaveRows(Tail(rs), one.employees, one.weeks, kw, s)

Init ==
    /\ pc = "app"
    /\ \E f \in DataFiles :
         LET b == BuildRows(f.employees, f.weeks, 1, DefaultSettings)
         IN  /\ employees = f.employees
             /\ weeks = b.weeks
             /\ rows = b.rows
    /\ settings = DefaultSettings
    /\ selected_id = 0 /\ var_kw = 1 /\ nextId = 1
    /\ last = Done("") /\ steps = 0
    /\ TimeIdle /\ DayIdle

\* the application is running and the session goes on
Running == pc = "app" /\ steps < MaxSteps

Ids == {employees[i].id : i \in DOMAIN employees}

\* EmployeesPage.on_new
on_new(name, target, balance, active) ==
    /\ Running
    /\ LET t == hhmm_to_minutes(target)
           b == hhmm_to_minutes(balance)
       IN  IF ~t.ok \/ ~b.ok
           THEN /\ last' = Done("Eingabefehler")
                /\ UNCHANGED <<employees, selected_id>>
           ELSE IF strip(name) = <<>>
           THEN /\ last' = Done("Eingabefehler")
                /\ UNCHANGED <<employees, selected_id>>
           ELSE /\ employees' = Append(employees,
                       Employee(nextId, strip(name), t.val, active, b.val))
                /\ selected_id' = 0
                /\ last' = Done("")
    /\ nextId' = IF last'.msg = "" THEN nextId + 1 ELSE nextId
    /\ steps' = steps + 1
    /\ UNCHANGED <<weeks, settings, rows, var_kw, pc, timeVars, dayVars>>

\* the employee with the given id (ids are unique)
EmployeeOf(id) == employees[CHOOSE i \in DOMAIN employees : employees[i].id = id]

\* EmployeesPage.on_select: the form then shows the selected employee
on_select(id) ==
    /\ Running /\ id \in Ids
    /\ selected_id' = id
    /\ last' = Done("")
    /\ steps' = steps + 1
    /\ UNCHANGED <<employees, weeks, settings, rows, var_kw, nextId, pc, timeVars, dayVars>>

\* EmployeesPage.reload ("Aktualisieren")
reload ==
    /\ Running
    /\ selected_id' = 0
    /\ last' = Done("")
    /\ steps' = steps + 1
    /\ UNCHANGED <<employees, weeks, settings, rows, var_kw, nextId, pc, timeVars, dayVars>>

\* EmployeesPage.on_save with the form holding name, target, balance, active
on_save(name, target, balance, active) ==
    /\ Running
    /\ IF selected_id = 0
       THEN /\ last' = Done("Hinweis")
            /\ UNCHANGED <<employees, selected_id>>
       ELSE LET t == hhmm_to_minutes(target)
                b == hhmm_to_minutes(balance)
            IN  IF ~t.ok \/ ~b.ok
                THEN /\ last' = Done("Eingabefehler")
                     /\ UNCHANGED <<employees, selected_id>>
                ELSE /\ employees' =
                          [i \in DOMAIN employees |->
                             IF employees[i].id = selected_id
                             THEN Employee(selected_id, strip(name), t.val,
                                           active, b.val)
                             ELSE employees[i]]
                     /\ selected_id' = 0
                     /\ last' = Done("")
    /\ steps' = steps + 1
    /\ UNCHANGED <<weeks, settings, rows, var_kw, nextId, pc, timeVars, dayVars>>

\* EmployeesPage.on_delete; confirm is the answer to "Mitarbeiter wirklich loeschen?"
on_delete(confirm) ==
    /\ Running
    /\ IF selected_id = 0 \/ ~confirm
       THEN UNCHANGED <<employees, selected_id>>
       ELSE /\ employees' = SelectSeq(employees, LAMBDA e : e.id # selected_id)
            /\ selected_id' = 0
    /\ last' = Done("")
    /\ steps' = steps + 1
    /\ UNCHANGED <<weeks, settings, rows, var_kw, nextId, pc, timeVars, dayVars>>

\* the user sets the calendar week of the week page
set_kw(kw) ==
    /\ Running /\ kw # var_kw
    /\ var_kw' = kw
    /\ last' = Done("")
    /\ steps' = steps + 1
    /\ UNCHANGED <<employees, weeks, settings, selected_id, rows, nextId, pc, timeVars, dayVars>>

\* the user edits a time entry of row i; the variable's trace redraws the labels.
\* The entries of a day are enabled only while its status is "Arbeitstag".
edit_field(i, day, key, t) ==
    /\ Running /\ i \in DOMAIN rows
    /\ rows[i].day_vars[day].status = "Arbeitstag"
    /\ rows' = [rows EXCEPT ![i] =
                   recalculate_labels([@ EXCEPT !.day_vars[day][key] = t], settings)]
    /\ last' = Done("")
    /\ steps' = steps + 1
    /\ UNCHANGED <<employees, weeks, settings, selected_id, var_kw, nextId, pc, timeVars, dayVars>>

\* the user picks a status in the combobox of a day of row i
edit_status(i, day, st) ==
    /\ Running /\ i \in DOMAIN rows
    /\ rows' = [rows EXCEPT ![i] =
                   recalculate_labels([@ EXCEPT !.day_vars[day].status = st], settings)]
    /\ last' = Done("")
    /\ steps' = steps + 1
    /\ UNCHANGED <<employees, weeks, settings, selected_id, var_kw, nextId, pc, timeVars, dayVars>>

\* the user edits the carry entry of row i (no trace on this variable)
edit_carry(i, t) ==
    /\ Running /\ i \in DOMAIN rows
    /\ rows' = [rows EXCEPT ![i].carry = t]
    /\ last' = Done("")
    /\ steps' = steps + 1
    /\ UNCHANGED <<employees, weeks, settings, selected_id, var_kw, nextId, pc, timeVars, dayVars>>

\* WeekPage.refresh_view ("Neu berechnen")
\* (refresh_view_writing: the variant that also stores each row's new carry
\* as the employee's balance, as save_all does.)
refresh_view_writing ==
    /\ Running
    /\ LET b == BuildRows(employees, weeks, var_kw, settings)
           r == SaveRows(b.rows, employees, b.weeks, var_kw, settings)
       IN  rows' = b.rows /\ weeks' = b.weeks /\ employees' = r.employees
    /\ last' = Done("")
    /\ steps' = steps + 1
    /\ UNCHANGED <<settings, selected_id, var_kw, nextId, pc, timeVars, dayVars>>

refresh_view ==
    /\ Running
    /\ LET b == BuildRows(employees, weeks, var_kw, settings)
       IN  rows' = b.rows /\ weeks' = b.weeks
    /\ last' = Done("")
    /\ steps' = steps + 1
    /\ UNCHANGED <<employees, settings, selected_id, var_kw, nextId, pc, timeVars, dayVars>>

\* WeekPage.save_all ("Speichern")
save_all ==
    /\ Running
    /\ LET r == SaveRows(rows, employees, weeks, var_kw, settings)
       IN  /\ employees' = r.employees
           /\ weeks' = r.weeks
           /\ last' = Done(IF r.ok THEN "Gespeichert" ELSE "")
    /\ steps' = steps + 1
    /\ UNCHANGED <<settings, selected_id, rows, var_kw, nextId, pc, timeVars, dayVars>>

\* SettingsPage.save
settings_save(threshold, short, long, vaca) ==
    /\ Running
    /\ settings' = [pause_threshold_min |-> Max(0, threshold),
                    pause_short_min |-> Max(0, short),
                    pause_long_min |-> Max(0, long),
                    count_vacation_as_work |-> vaca]
    /\ last' = Done("Gespeichert")
    /\ steps' = steps + 1
    /\ UNCHANGED <<employees, weeks, selected_id, rows, var_kw, nextId, pc, timeVars, dayVars>>

\* one row of the export: the name, the five days' net minutes, and the
\* weekly result r of the employee
ExportLine(emp, wed, r, s) ==
    [name |-> emp.name,
     days |-> [d \in DayNames |->
                 minutes_to_hhmm(
                     CarryOf(net_minutes_with_pause(wed.days[d], s.pause_short_min,
                                 s.pause_long_min, s.pause_threshold_min)), FALSE)],
     ist |-> minutes_to_hhmm(r.ist, FALSE),
     soll |-> minutes_to_hhmm(r.soll, FALSE),
     diff |-> minutes_to_hhmm(r.diff, TRUE),
     new_carry |-> minutes_to_hhmm(r.new_carry, TRUE)]

\* the rows of ExportPage.export_pdf for the active employees emps, and
\* data["weeks"] after the get_week_data calls; an exception ends the loop
RowsPlus(emp, wed, r, rest, s) ==
    IF ~r.ok \/ ~rest.ok THEN [rows |-> <<>>, weeks |-> rest.weeks, ok |-> FALSE]
    ELSE [rows |-> <<ExportLine(emp, wed, r.val, s)>> \o rest.rows,
          weeks |-> rest.weeks, ok |-> TRUE]

RECURSIVE ExportRows(_, _, _, _)
ExportRows(emps, wks, kw, s) ==
    IF emps = <<>> THEN [rows |-> <<>>, weeks |-> wks, ok |-> TRUE]
    ELSE RowsPlus(Head(emps), get_week_data(wks, Head(emps).id, kw),
                  WeeklyResult(get_week_data(wks, Head(emps).id, kw),
                               Head(emps).weekly_target_min, s),
                  ExportRows(Tail(emps), TouchWeek(wks, Head(emps).id, kw), kw, s),
                  s)

\* ExportPage.export_pdf for week kw; reportlab says whether the package can
\* be imported, path whether the user chose a file
export_pdf(kw, reportlab, path) ==
    /\ Running
    /\ LET active == SelectSeq(employees, LAMBDA e : e.active)
       IN  IF ~reportlab
           THEN last' = Done("ReportLab fehlt") /\ weeks' = weeks
           ELSE IF ~path
           THEN last' = Done("") /\ weeks' = weeks
           ELSE IF active = <<>>
           THEN /\ last' = Done("Keine aktiven Mitarbeiter")
                /\ weeks' = weeks
           ELSE LET x == ExportRows(active, weeks, kw, settings)
                IN  /\ last' = [msg |-> IF x.ok THEN "PDF erstellt" ELSE "",
                                report |-> x.rows]
                    /\ weeks' = x.weeks
    /\ steps' = steps + 1
    /\ UNCHANGED <<employees, settings, selected_id, rows, var_kw, nextId, pc, timeVars, dayVars>>

\* the form of the employees page as on_select filled it
FormTarget == minutes_to_hhmm(EmployeeOf(selected_id).weekly_target_min, FALSE)
FormBalance == minutes_to_hhmm(EmployeeOf(selected_id).balance_min, TRUE)

Next ==
    \/ \E f \in NewForms : on_new(f[1], f[2], f[3], TRUE)
    \/ \E id \in Ids : on_select(id)
    \/ reload
    \/ /\ selected_id = 0
       /\ on_save(NameBen, T1600, T0000, TRUE)
    \/ /\ selected_id # 0
       /\ \E t \in EditTargetTexts \cup {FormTarget}, a \in BOOLEAN :
             on_save(EmployeeOf(selected_id).name, t, FormBalance, a)
    \/ \E c \in BOOLEAN : on_delete(c)
    \/ \E kw \in KWs : set_kw(kw)
    \/ \E i \in DOMAIN rows, day \in EditDays, key \in EditKeys, t \in FieldTexts :
          edit_field(i, day, key, t)
    \/ \E i \in DOMAIN rows, day \in EditDays, st \in STATUSES :
          edit_status(i, day, st)
    \/ \E i \in DOMAIN rows, t \in CarryTexts : edit_carry(i, t)
    \/ refresh_view
    \/ save_all
    \/ \E x \in SettingsInputs : settings_save(x[1], x[2], x[3], x[4])
    \/ \E x \in ExportInputs : export_pdf(x[1], x[2], x[3])

Spec == Init /\ [][Next]_vars

(***************************************************************************)
(* Properties.  The clock texts the specification speaks of, stated        *)
(* without the parser: the text without its surrounding blanks, and the    *)
(* texts H:MM and HH:MM with hour 0-29 and minute 00-59.                   *)
(***************************************************************************)
DisplayMax == 29 * 60 + 59

AllBlank(t) == \A i \in 1..Len(t) : t[i] = " "

Trimmed(t) ==
    IF AllBlank(t) THEN <<>>
    ELSE LET i == CHOOSE k \in 1..Len(t) :
                    t[k] # " " /\ \A j \in 1..(k - 1) : t[j] = " "
             j == CHOOSE k \in 1..Len(t) :
                    t[k] # " " /\ \A l \in (k + 1)..Len(t) : t[l] = " "
         IN  SubSeq(t, i, j)

ClockShape(s) ==
    /\ Len(s) \in {4, 5}
    /\ s[Len(s) - 2] = ":"
    /\ \A i \in (1..Len(s)) \ {Len(s) - 2} : s[i] \in DigitSet

ClockHour(s) ==
    IF Len(s) = 4 THEN DigitVal(s[1]) ELSE 10 * DigitVal(s[1]) + DigitVal(s[2])

ClockMinute(s) == 10 * DigitVal(s[Len(s) - 1]) + DigitVal(s[Len(s)])

ValidClock(s) == ClockShape(s) /\ ClockHour(s) <= 29 /\ ClockMinute(s) <= 59

\* s occurs in the message msg as a run of its elements
Contains(msg, s) ==
    \E i \in 1..(Len(msg) - Len(s) + 1) : SubSeq(msg, i, i + Len(s) - 1) = s

\* C4: for every m with -1799 <= m <= 1799, parsing the signed rendering of m
\* gives m back: parse(format(m, allowNegative = true)) = m.
C4_SignedRoundTrip ==
    (pc = "roundtrip" /\ allow /\ -DisplayMax <= mins /\ mins <= DisplayMax)
        => (res.ok /\ res.val = mins)

\* C5: for every m with 0 <= m <= 29*60+59, format(m, allowNegative = false) is
\* the zero-padded HH:MM of m, and parsing it gives m back.
C5_NonNegativeRoundTrip ==
    (pc \in {"formatted", "roundtrip"} /\ ~allow /\ 0 <= mins /\ mins <= DisplayMax)
        => /\ txt = <<Digits[((mins \div 60) \div 10) + 1],
                      Digits[((mins \div 60) % 10) + 1], ":",
                      Digits[((mins % 60) \div 10) + 1],
                      Digits[((mins % 60) % 10) + 1]>>
           /\ pc = "roundtrip" => (res.ok /\ res.val = mins)

C5_Witness ==
    /\ pc = "roundtrip" /\ ~allow /\ mins = DisplayMax
    /\ txt = <<"2", "9", ":", "5", "9">>
    /\ res.ok /\ res.val = DisplayMax

\* C6: parse accepts exactly the clock texts: with the surrounding blanks
\* trimmed, empty text gives 0, H:MM or HH:MM with hour 0-29 and minute 00-59
\* gives hour*60+minute, and every other text raises an error whose message
\* contains the trimmed text, giving no value.
C6_ParseLanguage ==
    pc = "parsed" =>
        IF Trimmed(txt) = <<>> THEN res.ok /\ res.val = 0
        ELSE IF ValidClock(Trimmed(txt))
        THEN res.ok /\ res.val = ClockHour(Trimmed(txt)) * 60 + ClockMinute(Trimmed(txt))
        ELSE /\ ~res.ok
             /\ "val" \notin DOMAIN res
             /\ Contains(res.err, Trimmed(txt))

C6_Witness ==
    /\ pc = "parsed" /\ txt = <<"3", "0", ":", "0", "0">>
    /\ ~res.ok /\ Contains(res.err, txt)

\* the week has been computed
Computed == pc \in {"computed", "recomputed"}

\* C1: for a Workday with raw minutes r, netMinutes is 0 when r <= 0,
\* max(r - short, 0) when 0 < r <= threshold and max(r - long, 0) when
\* r > threshold; with threshold 555, short 30 and long 45, r = 555 gives 525,
\* r = 556 gives 511 and r = 600 gives 555.
C1_TwoTierBreakRule ==
    Computed =>
        \A d \in DayNames :
            wk[d].status = "Arbeitstag" =>
                /\ calc.raw[d].ok /\ calc.net[d].ok
                /\ calc.net[d].val =
                      IF calc.raw[d].val <= 0 THEN 0
                      ELSE IF calc.raw[d].val <= cfg.pause_threshold_min
                      THEN Max(calc.raw[d].val - cfg.pause_short_min, 0)
                      ELSE Max(calc.raw[d].val - cfg.pause_long_min, 0)
                /\ cfg = PauseRule(555, 30, 45) =>
                      /\ calc.raw[d].val = 555 => calc.net[d].val = 525
                      /\ calc.raw[d].val = 556 => calc.net[d].val = 511
                      /\ calc.raw[d].val = 600 => calc.net[d].val = 555

C1_Witness ==
    /\ pc = "computed" /\ cfg = PauseRule(555, 30, 45)
    /\ wk["Montag"].status = "Arbeitstag"
    /\ calc.raw["Montag"].ok /\ calc.raw["Montag"].val = 555
    /\ calc.net["Montag"].ok /\ calc.net["Montag"].val = 525

\* what a span adds to the raw minutes according to C3: 0 when a boundary is
\* absent or no clock text, else the clamped difference
Boundary(t) == Trimmed(t) # <<>> /\ ValidClock(Trimmed(t))

ClockOf(t) == ClockHour(Trimmed(t)) * 60 + ClockMinute(Trimmed(t))

Contribution(a, b) ==
    IF Boundary(a) /\ Boundary(b) THEN Max(ClockOf(b) - ClockOf(a), 0) ELSE 0

\* C3: a span whose start or end is absent (empty or blank) or is no valid
\* clock text adds 0 to the day's raw minutes, whatever the other boundary is.
C3_MissingBoundaryAddsZero ==
    Computed =>
        \A d \in DayNames :
            /\ calc.raw[d].ok
            /\ calc.raw[d].val = Contribution(wk[d].start1, wk[d].end1)
                                   + Contribution(wk[d].start2, wk[d].end2)

\* C7: computing over stored day entries of arbitrary text never raises:
\* the raw and net minutes of every day and the weekly total are non-negative
\* integers, the weekly total is the sum of the days' net minutes, and
\* overwriting a time of one day with malformed text changes the net minutes
\* of no other day.
C7_ComputationNeverRaises ==
    /\ [](Computed =>
            /\ \A d \in DayNames :
                  /\ calc.raw[d].ok /\ calc.raw[d].val >= 0
                  /\ calc.net[d].ok /\ calc.net[d].val >= 0
            /\ calc.ist.ok
            /\ calc.ist.val = calc.net["Montag"].val + calc.net["Dienstag"].val
                  + calc.net["Mittwoch"].val + calc.net["Donnerstag"].val
                  + calc.net["Freitag"].val)
    /\ [][pc' = "recomputed" =>
            \A d \in DayNames : wk'[d] = wk[d] => calc'.net[d] = calc.net[d]]_vars

C7_Witness ==
    /\ pc = "recomputed" /\ wk["Montag"].start1 = TBad /\ wk["Montag"].end1 = T1630
    /\ wk["Dienstag"] = FullDay
    /\ calc.net["Montag"].ok /\ calc.net["Montag"].val = 0
    /\ calc.net["Dienstag"].ok /\ calc.net["Dienstag"].val = 480
    /\ calc.ist.ok /\ calc.ist.val = 4 * 480

\* Reconciling a week stated on its own: the difference and the new balance
\* of a weekly total, the carry the week was entered with and a target.
Reconciled(weeklyTotal, carryPrev, target) ==
    [difference |-> weeklyTotal - target,
     newBalance |-> carryPrev + (weeklyTotal - target)]

\* the weekly total of a week record under the settings in force
WeeklyTotal(wed) ==
    CarryOf(weekly_ist(wed, settings.pause_short_min, settings.pause_long_min,
                       settings.pause_threshold_min))

\* the week record a row of the week page stands for
RowRecord(i) == collect_week_data(rows[i])

\* the steps of the application, whatever their inputs (each is told first
\* by what it shows, then by the handler itself)
SaveWeekStep == last'.msg = "Gespeichert" /\ settings' = settings /\ save_all

ExportedStep(kw) == last'.msg = "PDF erstellt" /\ export_pdf(kw, TRUE, TRUE)

ExportStep == \E kw \in KWs : ExportedStep(kw)

EmployeeEditStep ==
    \/ \E f \in NewForms : on_new(f[1], f[2], f[3], TRUE)
    \/ /\ selected_id # 0
       /\ \E t \in EditTargetTexts \cup {FormTarget}, a \in BOOLEAN :
             on_save(EmployeeOf(selected_id).name, t, FormBalance, a)
    \/ on_delete(TRUE)

DisplayStep ==
    /\ selected_id' = selected_id /\ nextId' = nextId /\ last'.msg = ""
    /\ \/ \E i \in DOMAIN rows, day \in EditDays, key \in EditKeys, t \in FieldTexts :
             edit_field(i, day, key, t)
       \/ \E i \in DOMAIN rows, day \in EditDays, st \in STATUSES :
             edit_status(i, day, st)
       \/ refresh_view

FiveFullDays(wed) == \A d \in DayNames : wed.days[d] = FullDay

\* C2: for every row the save-week action writes into the row's employee the
\* balance newBalance = carryPrev + difference with difference = weeklyTotal -
\* target, computed from the row's week record and the row's employee; the
\* export draws the same difference and new balance from the stored week
\* record.  For target 2310, carry 0 and five Workdays 08:00-16:30 under the
\* default settings the total is 2400, the difference +90, the balance 90.
C2_Reconcile ==
    [][/\ SaveWeekStep =>
            \A i \in DOMAIN rows : \A j \in DOMAIN employees' :
                employees'[j].id = rows[i].emp.id =>
                    LET wed == RowRecord(i)
                        total == WeeklyTotal(wed)
                        target == rows[i].emp.weekly_target_min
                    IN  /\ employees'[j].balance_min =
                              Reconciled(total, wed.carry_prev_min, target).newBalance
                        /\ ( /\ FiveFullDays(wed) /\ wed.carry_prev_min = 0
                             /\ target = 2310 /\ settings = DefaultSettings )
                           => total = 2400 /\ employees'[j].balance_min = 90
       /\ \A kw \in KWs :
            ExportedStep(kw) =>
                LET active == SelectSeq(employees, LAMBDA e : e.active)
                IN  /\ Len(last'.report) = Len(active)
                    /\ \A k \in DOMAIN active :
                          LET wed == get_week_data(weeks, active[k].id, kw)
                              r == Reconciled(WeeklyTotal(wed), wed.carry_prev_min,
                                              active[k].weekly_target_min)
                          IN  /\ last'.report[k].diff =
                                    minutes_to_hhmm(r.difference, TRUE)
                              /\ last'.report[k].new_carry =
                                    minutes_to_hhmm(r.newBalance, TRUE)
      ]_vars

C2_Witness ==
    /\ pc = "app" /\ steps = 1 /\ last.msg = "Gespeichert"
    /\ Len(rows) = 1 /\ rows[1].emp.weekly_target_min = 2310
    /\ rows[1].carry = T0000 /\ FiveFullDays(RowRecord(1))
    /\ rows[1].lbl_ist = <<"4", "0", ":", "0", "0">>
    /\ Len(employees) = 1 /\ employees[1].id = rows[1].emp.id
    /\ employees[1].balance_min = 90
    /\ weeks[1][100].carry_prev_min = 0

\* a stored time: absent, or clock text
StoredTimeValid(t) == Trimmed(t) = <<>> \/ ValidClock(Trimmed(t))

\* C8: after any sequence of employee add/edit and save-week actions every
\* stored employee target and balance is a number of minutes and every stored
\* Day Entry start and end time is either absent or valid clock text.
C8_StoredFieldsValid ==
    pc = "app" =>
        /\ \A j \in DOMAIN employees :
              employees[j].weekly_target_min \in Int /\ employees[j].balance_min \in Int
        /\ \A kw \in DOMAIN weeks : \A id \in DOMAIN weeks[kw] :
              "days" \in DOMAIN weeks[kw][id] =>
                  \A d \in DOMAIN weeks[kw][id].days :
                      /\ StoredTimeValid(weeks[kw][id].days[d].start1)
                      /\ StoredTimeValid(weeks[kw][id].days[d].end1)
                      /\ StoredTimeValid(weeks[kw][id].days[d].start2)
                      /\ StoredTimeValid(weeks[kw][id].days[d].end2)

\* C9: recomputing for display (an edit of a field of a row, refresh_view) and
\* the report export leave every employee's stored balance, target, name and
\* active flag unchanged; the stored employees change only in the save-week
\* action and in the employee edits.
C9_BalanceWrittenOnlyBySave ==
    [][employees' # employees =>
          /\ ~(DisplayStep \/ ExportStep)
          /\ SaveWeekStep \/ EmployeeEditStep]_vars

C9_Witness ==
    /\ pc = "app" /\ steps = 2 /\ last.msg = "PDF erstellt"
    /\ Len(last.report) = 1 /\ last.report[1].new_carry = T0130
    /\ Len(rows) = 1 /\ rows[1].day_vars["Montag"].status = "Urlaub"
    /\ rows[1].lbl_diff = <<"-", "0", "6", ":", "3", "0">>
    /\ employees = <<Employee(100, NameAnna, 2310, TRUE, 0)>>

\* C10: the difference the save-week action folds into the balance is the
\* weekly total minus the employee's weekly target as stored at the moment of
\* the save.
C10_TargetAtSaveTime ==
    [][SaveWeekStep =>
          \A i \in DOMAIN rows : \A j \in DOMAIN employees :
              employees[j].id = rows[i].emp.id =>
                  employees'[j].balance_min =
                      Reconciled(WeeklyTotal(RowRecord(i)),
                                 RowRecord(i).carry_prev_min,
                                 employees[j].weekly_target_min).newBalance
      ]_vars

\* the store entry a lookup was made for, and the days stored in it
LookedStore == weeks[calc.kw][calc.emp_id]

LookedDays == Get(LookedStore, "days", EmptyMap)

\* the net minutes C11 expects of day d: every stored entry here is 08:00-16:30
ExpectedNet(d) ==
    IF d \notin DOMAIN LookedDays THEN 0
    ELSE IF Get(LookedDays[d], "status", "Arbeitstag") # "Arbeitstag" THEN 0
    ELSE 510 - 30

\* C11: a week record obtained for any key has exactly the five days Montag to
\* Freitag; a day with no stored entry is a Workday with no times and adds 0;
\* the weekly total is the sum of the net minutes of those five days, entries
\* stored under another day name not counted; a never-referenced key yields
\* carry 0 and weekly total 0.
C11_FiveWeekdays ==
    pc = "looked" =>
        /\ DOMAIN calc.wed.days = DayNames
        /\ \A d \in DayNames \ DOMAIN LookedDays : calc.wed.days[d] = DefaultDayEntry
        /\ \A d \in DayNames \cap DOMAIN LookedDays :
              /\ calc.wed.days[d].status = Get(LookedDays[d], "status", "Arbeitstag")
              /\ calc.wed.days[d].start1 = LookedDays[d].start1
              /\ calc.wed.days[d].end1 = LookedDays[d].end1
        /\ calc.wed.carry_prev_min = Get(LookedStore, "carry_prev_min", 0)
        /\ calc.ist.ok
        /\ calc.ist.val = ExpectedNet("Montag") + ExpectedNet("Dienstag")
              + ExpectedNet("Mittwoch") + ExpectedNet("Donnerstag")
              + ExpectedNet("Freitag")
        /\ DOMAIN LookedStore = {} =>
              calc.wed.carry_prev_min = 0 /\ calc.ist.val = 0

C11_Witness ==
    /\ pc = "looked" /\ calc.emp_id = 100 /\ calc.kw = 1
    /\ DOMAIN LookedDays = {"Montag", "Samstag"}
    /\ LookedDays["Montag"] = FullDay /\ LookedDays["Samstag"] = FullDay
    /\ calc.wed.days["Dienstag"] = DefaultDayEntry
    /\ calc.wed.carry_prev_min = -60
    /\ calc.ist.ok /\ calc.ist.val = 480

NonWorkStatuses == {"Urlaub", "Krank", "Feiertag"}

\* C12: with the count-as-work flag off, a day whose status is Urlaub, Krank
\* or Feiertag has net minutes 0, whatever its four time fields hold and
\* whatever the pause configuration is.
C12_NonWorkDaysAreZero ==
    (Computed /\ ~cfg.count_vacation_as_work) =>
        \A d \in DayNames :
            wk[d].status \in NonWorkStatuses =>
                calc.net[d].ok /\ calc.net[d].val = 0

C12_Witness ==
    /\ pc = "computed" /\ ~cfg.count_vacation_as_work
    /\ wk["Montag"] = DayEntry("Krank", T0800, T1630, T0800, T1630)
    /\ calc.raw["Montag"].ok /\ calc.raw["Montag"].val = 1020
    /\ calc.net["Montag"].ok /\ calc.net["Montag"].val = 0

HasNonWorkDay(wed) == \E d \in DayNames : wed.days[d].status \in NonWorkStatuses

\* C13: with the flag for counting non-work days set, the weekly total holds
\* a per-day credit for each Urlaub, Krank or Feiertag day instead of 0: the
\* balance the save-week action writes for a week with such a day differs
\* from the one computed with those days counted as 0, and so does the total
\* the export draws.  (WeeklyTotal counts those days as 0.)
C13_FlagAddsCredit ==
    [][/\ (SaveWeekStep /\ settings.count_vacation_as_work) =>
            \A i \in DOMAIN rows : \A j \in DOMAIN employees' :
                (employees'[j].id = rows[i].emp.id /\ HasNonWorkDay(RowRecord(i))) =>
                    employees'[j].balance_min #
                        Reconciled(WeeklyTotal(RowRecord(i)),
                                   RowRecord(i).carry_prev_min,
                                   rows[i].emp.weekly_target_min).newBalance
       /\ \A kw \in KWs :
            (ExportedStep(kw) /\ settings.count_vacation_as_work) =>
                LET active == SelectSeq(employees, LAMBDA e : e.active)
                IN  \A k \in DOMAIN active :
                        HasNonWorkDay(get_week_data(weeks, active[k].id, kw)) =>
                            last'.report[k].ist #
                                minutes_to_hhmm(
                                    WeeklyTotal(get_week_data(weeks, active[k].id, kw)),
                                    FALSE)
      ]_vars

\* both boundaries of a span are valid clock times
BothValid(a, b) == Boundary(a) /\ Boundary(b)

\* both boundaries of a span are absent
BothAbsent(a, b) == Trimmed(a) = <<>> /\ Trimmed(b) = <<>>

Clamped(a, b) == Max(ClockOf(b) - ClockOf(a), 0)

\* C14: a span whose start and end are both valid clock times adds
\* max(end - start, 0) to the raw minutes, 0 when the end is earlier than the
\* start and never a negative number; the raw minutes are the sum of the
\* contributions of the two spans.
C14_ClampedSpan ==
    Computed =>
        \A d \in DayNames :
            /\ calc.raw[d].ok /\ calc.raw[d].val >= 0
            /\ (BothValid(wk[d].start1, wk[d].end1) /\ BothValid(wk[d].start2, wk[d].end2))
                  => calc.raw[d].val = Clamped(wk[d].start1, wk[d].end1)
                                         + Clamped(wk[d].start2, wk[d].end2)
            /\ (BothValid(wk[d].start1, wk[d].end1) /\ BothAbsent(wk[d].start2, wk[d].end2))
                  => calc.raw[d].val = Clamped(wk[d].start1, wk[d].end1)
            /\ (BothAbsent(wk[d].start1, wk[d].end1) /\ BothValid(wk[d].start2, wk[d].end2))
                  => calc.raw[d].val = Clamped(wk[d].start2, wk[d].end2)

C14_Witness ==
    /\ pc = "computed"
    /\ wk["Montag"] = DayEntry("Arbeitstag", T1630, T0800, T0800, T1630)
    /\ calc.raw["Montag"].ok /\ calc.raw["Montag"].val = 510

\* the rows are as "Neu berechnen" builds them from the stored data: no
\* field has been edited since
RowsJustBuilt == rows = BuildRows(employees, weeks, var_kw, settings).rows

\* the week of row i has been saved: its days are stored and the balance of
\* its employee is the stored entering carry plus the week's difference
WeekSaved(i) ==
    /\ var_kw \in DOMAIN weeks /\ rows[i].emp.id \in DOMAIN weeks[var_kw]
    /\ "days" \in DOMAIN weeks[var_kw][rows[i].emp.id]
    /\ \E j \in DOMAIN employees :
          /\ employees[j] = rows[i].emp
          /\ employees[j].balance_min =
                Reconciled(WeeklyTotal(get_week_data(weeks, rows[i].emp.id, var_kw)),
                           get_week_data(weeks, rows[i].emp.id, var_kw).carry_prev_min,
                           employees[j].weekly_target_min).newBalance

\* C15: after save-week and "Neu berechnen", a second save-week with no field
\* edited leaves every employee's balance at the value after the first save:
\* a save-week step on rows just built from a saved week changes no balance.
C15_SaveIdempotentAcrossRefresh ==
    [][(SaveWeekStep /\ rows # <<>> /\ RowsJustBuilt
          /\ \A i \in DOMAIN rows : WeekSaved(i))
        => employees' = employees]_vars

\* C16: a row built for an employee of running balance b, for a week with no
\* stored carry, gives back carry_prev_min = b when the week is collected
\* from the unedited row, for every signed b.
C16_CarrySurvivesRow ==
    (pc = "rowbuilt" /\ "carry_prev_min" \notin DOMAIN LookedStore)
        => calc.wed.carry_prev_min = calc.balance

=============================================================================
